---- MODULE Spec2Model ----
(***************************************************************************)
(* Model of the RingBuffer library (RingBuffer.c / RingBuffer.h).          *)
(*                                                                         *)
(* The storage is modelled at byte granularity: a buffer of `size` cells   *)
(* of `cell_size` bytes is a sequence of size * cell_size bytes, and every *)
(* memcpy of the source is a byte copy at offset index * cell_size.        *)
(* Every library function is an operator that is computed as the C code    *)
(* computes it; every action of the specification is one call of one       *)
(* library function by the application.                                    *)
(***************************************************************************)
EXTENDS Integers, Sequences, FiniteSets, TLC

\* ------------------------------------------------------------------ bounds
MaxSize == 3          \* largest capacity [cells] passed to RingBuf_Init

MaxLen == MaxSize + 1 \* largest len argument (one more than any capacity)

\* The values of a byte.  The library never looks at the data it moves (it
\* only copies it with memcpy), so two values are enough to tell any two
\* cells apart; cells put are tagged with a value of Byte.
Byte == {0, 1}

\* the cell sizes [bytes] passed to RingBuf_Init: u8_t, u16_t and u32_t cells
CellSizes == {1, 2, 4}

\* --------------------------------------------------------------- constants
U16 == 65536          \* u16_t arithmetic is modulo 2^16

NULL    == "NULL"
STORAGE == "storage"  \* address of the caller's storage array

RINGBUF_OK        == "RINGBUF_OK"
RINGBUF_ERR       == "RINGBUF_ERR"
RINGBUF_PARAM_ERR == "RINGBUF_PARAM_ERR"
RINGBUF_OVERFLOW  == "RINGBUF_OVERFLOW"
NO_RETURN         == "no return"   \* the call trapped and never returned

VARIABLES
    rb,      \* the RINGBUF_t structure: buf, tail, head, size, cell_size
    mem,     \* the caller's storage array, a sequence of bytes
    call,    \* the last library call: its arguments and its results
    fifo,    \* history: the cells put and not yet read, as an abstract FIFO
    fresh,   \* history: the puts and reads made since the last reset
    halted,  \* the program trapped (access through a null pointer)
    twin,    \* a second buffer, driven by the same calls (SpecPair only)
    task     \* the calls in progress, statement by statement (SpecSteps only)

vars == <<rb, mem, call, fifo, fresh, halted, twin, task>>

\* -------------------------------------------------------------- C helpers
\* memcpy(&dst[d], &src[s], n) with byte offsets d, s counted from 0
memcpy(dst, d, src, s, n) ==
    [i \in 1 .. Len(dst) |->
        IF i - 1 >= d /\ i - 1 < d + n THEN src[s + (i - d)] ELSE dst[i]]

Zeros(n) == [i \in 1 .. n |-> 0]

\* The caller's output array of n bytes before a call: every byte holds a
\* value that no stored byte has, so that any byte a call writes shows.
Unwritten == Cardinality(Byte)
OutArray(n) == [i \in 1 .. n |-> Unwritten]

\* the bytes of the cell tagged v, for a cell of cs bytes: the bytes of a
\* cell differ from each other, and the cell tagged 0 is the zero cell
CellOf(v, cs) == [j \in 1 .. cs |-> (v * j) % Cardinality(Byte)]

\* the tags of an input array of len cells: consecutive values from v on
Run(v, len) == [i \in 1 .. len |-> (v + i - 1) % Cardinality(Byte)]

\* the bytes of a sequence of cells given by their tags
CellsOf(tags, cs) ==
    [k \in 1 .. Len(tags) * cs |-> CellOf(tags[((k - 1) \div cs) + 1], cs)[((k - 1) % cs) + 1]]

\* cell i (counted from 0) of a byte sequence of cells of cs bytes
CellAt(bytes, i, cs) == SubSeq(bytes, i * cs + 1, i * cs + cs)

Res(st, r, m) == [st |-> st, rb |-> r, mem |-> m]

\* ------------------------------------------------------ library functions
\* RingBuf_Clear that resets head only
Clear_HeadOnly(r) ==
    IF r.buf = NULL THEN [st |-> RINGBUF_PARAM_ERR, rb |-> r]
    ELSE [st |-> RINGBUF_OK, rb |-> [r EXCEPT !.head = 0]]

RingBuf_Clear(r) ==
    IF r.buf = NULL THEN [st |-> RINGBUF_PARAM_ERR, rb |-> r]
    ELSE [st |-> RINGBUF_OK, rb |-> [r EXCEPT !.head = 0, !.tail = 0]]

RingBuf_Init(buf, size, cellsize, r) ==
    LET r1 == [r EXCEPT !.size = size, !.cell_size = cellsize, !.buf = buf]
        r2 == RingBuf_Clear(r1).rb
    IN  [st |-> IF r2.buf # NULL THEN RINGBUF_OK ELSE RINGBUF_PARAM_ERR,
         rb |-> r2]

\* RingBuf_Available without the head < tail branch
Available_NoWrap(len, r) ==
    IF r.buf = NULL THEN [st |-> RINGBUF_PARAM_ERR, len |-> len]
    ELSE [st |-> RINGBUF_OK, len |-> (r.head - r.tail) % U16]

\* len is the value of *len before the call
RingBuf_Available(len, r) ==
    IF r.buf = NULL THEN [st |-> RINGBUF_PARAM_ERR, len |-> len]
    ELSE IF r.head < r.tail
         THEN [st |-> RINGBUF_OK, len |-> (r.size - r.tail + r.head) % U16]
         ELSE [st |-> RINGBUF_OK, len |-> (r.head - r.tail) % U16]

\* RingBuf_BytePut without the wrap of head
BytePut_NoWrap(data, r, m) ==
    IF r.buf = NULL THEN Res(RINGBUF_PARAM_ERR, r, m)
    ELSE LET m1 == [m EXCEPT ![r.head + 1] = data]
             h1 == r.head + 1
         IN  Res(RINGBUF_OK, [r EXCEPT !.head = h1], m1)

RingBuf_BytePut(data, r, m) ==
    IF r.buf = NULL THEN Res(RINGBUF_PARAM_ERR, r, m)
    ELSE LET m1 == [m EXCEPT ![r.head + 1] = data]
             h1 == r.head + 1
             h2 == IF h1 >= r.size THEN 0 ELSE h1
         IN  Res(RINGBUF_OK, [r EXCEPT !.head = h2], m1)

\* RingBuf_DataPut that checks len against the free cells
DataPut_FreeSpaceCheck(data, len, r, m) ==
    IF r.buf = NULL THEN Res(RINGBUF_PARAM_ERR, r, m)
    ELSE IF len > r.size - RingBuf_Available(0, r).len THEN Res(RINGBUF_OVERFLOW, r, m)
    ELSE LET cs     == r.cell_size
             space  == r.size - r.head
             wrap   == len > space
             m1     == IF wrap THEN memcpy(m, r.head * cs, data, 0, space * cs) ELSE m
             h1     == IF wrap THEN 0 ELSE r.head
             s_addr == IF wrap THEN space ELSE 0
             len1   == IF wrap THEN len - space ELSE len
             m2     == memcpy(m1, h1 * cs, data, s_addr * cs, len1 * cs)
             h2     == h1 + len1
             h3     == IF h2 >= r.size THEN 0 ELSE h2
         IN  Res(RINGBUF_OK, [r EXCEPT !.head = h3], m2)

\* RingBuf_DataPut that wraps head only when it is past the capacity
DataPut_HeadNotWrapped(data, len, r, m) ==
    IF r.buf = NULL THEN Res(RINGBUF_PARAM_ERR, r, m)
    ELSE IF len > r.size THEN Res(RINGBUF_OVERFLOW, r, m)
    ELSE LET cs     == r.cell_size
             space  == r.size - r.head
             wrap   == len > space
             m1     == IF wrap THEN memcpy(m, r.head * cs, data, 0, space * cs) ELSE m
             h1     == IF wrap THEN 0 ELSE r.head
             s_addr == IF wrap THEN space ELSE 0
             len1   == IF wrap THEN len - space ELSE len
             m2     == memcpy(m1, h1 * cs, data, s_addr * cs, len1 * cs)
             h2     == h1 + len1
             h3     == IF h2 > r.size THEN 0 ELSE h2
         IN  Res(RINGBUF_OK, [r EXCEPT !.head = h3], m2)

\* RingBuf_DataPut that takes head for a byte offset
DataPut_ByteStride(data, len, r, m) ==
    IF r.buf = NULL THEN Res(RINGBUF_PARAM_ERR, r, m)
    ELSE IF len > r.size THEN Res(RINGBUF_OVERFLOW, r, m)
    ELSE LET cs     == r.cell_size
             space  == r.size - r.head
             wrap   == len > space
             m1     == IF wrap THEN memcpy(m, r.head, data, 0, space * cs) ELSE m
             h1     == IF wrap THEN 0 ELSE r.head
             s_addr == IF wrap THEN space ELSE 0
             len1   == IF wrap THEN len - space ELSE len
             m2     == memcpy(m1, h1, data, s_addr * cs, len1 * cs)
             h2     == h1 + len1
             h3     == IF h2 >= r.size THEN 0 ELSE h2
         IN  Res(RINGBUF_OK, [r EXCEPT !.head = h3], m2)

\* RingBuf_DataPut that leaves s_addr at 0 after the first segment
DataPut_SrcNotShifted(data, len, r, m) ==
    IF r.buf = NULL THEN Res(RINGBUF_PARAM_ERR, r, m)
    ELSE IF len > r.size THEN Res(RINGBUF_OVERFLOW, r, m)
    ELSE LET cs     == r.cell_size
             space  == r.size - r.head
             wrap   == len > space
             m1     == IF wrap THEN memcpy(m, r.head * cs, data, 0, space * cs) ELSE m
             h1     == IF wrap THEN 0 ELSE r.head
             len1   == IF wrap THEN len - space ELSE len
             m2     == memcpy(m1, h1 * cs, data, 0, len1 * cs)
             h2     == h1 + len1
             h3     == IF h2 >= r.size THEN 0 ELSE h2
         IN  Res(RINGBUF_OK, [r EXCEPT !.head = h3], m2)

RingBuf_DataPut(data, len, r, m) ==
    IF r.buf = NULL THEN Res(RINGBUF_PARAM_ERR, r, m)
    ELSE IF len > r.size THEN Res(RINGBUF_OVERFLOW, r, m)
    ELSE LET cs     == r.cell_size
             space  == r.size - r.head
             wrap   == len > space
             m1     == IF wrap THEN memcpy(m, r.head * cs, data, 0, space * cs) ELSE m
             h1     == IF wrap THEN 0 ELSE r.head
             s_addr == IF wrap THEN space ELSE 0
             len1   == IF wrap THEN len - space ELSE len
             m2     == memcpy(m1, h1 * cs, data, s_addr * cs, len1 * cs)
             h2     == h1 + len1
             h3     == IF h2 >= r.size THEN 0 ELSE h2
         IN  Res(RINGBUF_OK, [r EXCEPT !.head = h3], m2)

RingBuf_CellPut(data, r, m) == RingBuf_DataPut(data, 1, r, m)

\* The watch functions do not test rb->buf: on an unbound buffer they read
\* through a null pointer.  The outcomes of that read are a trap, or a
\* return with whatever bytes the read produced.
WRes(st, out, trap) == [st |-> st, out |-> out, trap |-> trap]

NullRead(out, n) ==
    {WRes(NO_RETURN, out, TRUE)}
    \cup {WRes(RINGBUF_OK, [i \in 1 .. Len(out) |-> IF i <= n THEN b ELSE out[i]], FALSE) : b \in Byte}

\* RingBuf_DataWatch that copies the first segment only
DataWatch_RemainderDropped(isnull, out, len, r, m) ==
    IF isnull THEN {WRes(RINGBUF_PARAM_ERR, out, FALSE)}
    ELSE IF len > r.size THEN {WRes(RINGBUF_OVERFLOW, out, FALSE)}
    ELSE IF r.buf = NULL THEN NullRead(out, len * r.cell_size)
    ELSE LET cs     == r.cell_size
             space  == (r.size - r.tail) % U16
             wrap   == len > space
             o1     == IF wrap THEN memcpy(out, 0, m, (r.tail % U16) * cs, space * cs) ELSE out
             ltail  == IF wrap THEN 0 ELSE r.tail % U16
             s_addr == IF wrap THEN space ELSE 0
             len1   == IF wrap THEN 0 ELSE len
             o2     == memcpy(o1, s_addr * cs, m, ltail * cs, len1 * cs)
         IN  {WRes(RINGBUF_OK, o2, FALSE)}

\* RingBuf_DataWatch that leaves s_addr at 0 after the first segment
DataWatch_DstNotShifted(isnull, out, len, r, m) ==
    IF isnull THEN {WRes(RINGBUF_PARAM_ERR, out, FALSE)}
    ELSE IF len > r.size THEN {WRes(RINGBUF_OVERFLOW, out, FALSE)}
    ELSE IF r.buf = NULL THEN NullRead(out, len * r.cell_size)
    ELSE LET cs     == r.cell_size
             space  == (r.size - r.tail) % U16
             wrap   == len > space
             o1     == IF wrap THEN memcpy(out, 0, m, (r.tail % U16) * cs, space * cs) ELSE out
             ltail  == IF wrap THEN 0 ELSE r.tail % U16
             len1   == IF wrap THEN (len - space) % U16 ELSE len
             o2     == memcpy(o1, 0, m, ltail * cs, len1 * cs)
         IN  {WRes(RINGBUF_OK, o2, FALSE)}

\* isnull: data == NULL; out: the caller's output array before the call
RingBuf_DataWatch(isnull, out, len, r, m) ==
    IF isnull THEN {WRes(RINGBUF_PARAM_ERR, out, FALSE)}
    ELSE IF len > r.size THEN {WRes(RINGBUF_OVERFLOW, out, FALSE)}
    ELSE IF r.buf = NULL THEN NullRead(out, len * r.cell_size)
    ELSE LET cs     == r.cell_size
             space  == (r.size - r.tail) % U16
             wrap   == len > space
             o1     == IF wrap THEN memcpy(out, 0, m, (r.tail % U16) * cs, space * cs) ELSE out
             ltail  == IF wrap THEN 0 ELSE r.tail % U16
             s_addr == IF wrap THEN space ELSE 0
             len1   == IF wrap THEN (len - space) % U16 ELSE len
             o2     == memcpy(o1, s_addr * cs, m, ltail * cs, len1 * cs)
         IN  {WRes(RINGBUF_OK, o2, FALSE)}

RingBuf_CellWatch(isnull, out, r, m) == RingBuf_DataWatch(isnull, out, 1, r, m)

RingBuf_ByteWatch(isnull, out, r, m) ==
    IF isnull THEN {WRes(RINGBUF_PARAM_ERR, out, FALSE)}
    ELSE IF r.buf = NULL THEN NullRead(out, 1)
    ELSE {WRes(RINGBUF_OK, [out EXCEPT ![1] = m[r.tail + 1]], FALSE)}

RRes(st, out, r) == [st |-> st, out |-> out, rb |-> r]

\* RingBuf_DataRead that wraps tail only when it is past the capacity
DataRead_TailNotWrapped(isnull, out, len, r, m) ==
    IF r.buf = NULL THEN {RRes(RINGBUF_PARAM_ERR, out, r)}
    ELSE { IF w.st # RINGBUF_OK THEN RRes(w.st, w.out, r)
           ELSE LET t1 == r.tail + len
                    t2 == IF t1 > r.size THEN 0 ELSE t1
                IN  RRes(w.st, w.out, [r EXCEPT !.tail = t2])
           : w \in RingBuf_DataWatch(isnull, out, len, r, m) }

\* RingBuf_DataRead that shifts head in place of tail
DataRead_ShiftsHead(isnull, out, len, r, m) ==
    IF r.buf = NULL THEN {RRes(RINGBUF_PARAM_ERR, out, r)}
    ELSE { IF w.st # RINGBUF_OK THEN RRes(w.st, w.out, r)
           ELSE LET t1 == r.tail + len
                    t2 == IF t1 >= r.size THEN 0 ELSE t1
                IN  RRes(w.st, w.out, [r EXCEPT !.head = t2])
           : w \in RingBuf_DataWatch(isnull, out, len, r, m) }

\* RingBuf_DataRead that does not shift tail
DataRead_TailKept(isnull, out, len, r, m) ==
    IF r.buf = NULL THEN {RRes(RINGBUF_PARAM_ERR, out, r)}
    ELSE { RRes(w.st, w.out, r) : w \in RingBuf_DataWatch(isnull, out, len, r, m) }

\* RingBuf_DataRead that shifts tail without looking at the watch status
DataRead_StatusIgnored(isnull, out, len, r, m) ==
    IF r.buf = NULL THEN {RRes(RINGBUF_PARAM_ERR, out, r)}
    ELSE { LET t1 == r.tail + len
               t2 == IF t1 >= r.size THEN 0 ELSE t1
           IN  RRes(w.st, w.out, [r EXCEPT !.tail = t2])
           : w \in RingBuf_DataWatch(isnull, out, len, r, m) }

RingBuf_DataRead(isnull, out, len, r, m) ==
    IF r.buf = NULL THEN {RRes(RINGBUF_PARAM_ERR, out, r)}
    ELSE { IF w.st # RINGBUF_OK THEN RRes(w.st, w.out, r)
           ELSE LET t1 == r.tail + len
                    t2 == IF t1 >= r.size THEN 0 ELSE t1
                IN  RRes(w.st, w.out, [r EXCEPT !.tail = t2])
           : w \in RingBuf_DataWatch(isnull, out, len, r, m) }

RingBuf_CellRead(isnull, out, r, m) == RingBuf_DataRead(isnull, out, 1, r, m)

RingBuf_ByteRead(isnull, out, r, m) ==
    IF r.buf = NULL THEN {RRes(RINGBUF_PARAM_ERR, out, r)}
    ELSE { IF w.st # RINGBUF_OK THEN RRes(w.st, w.out, r)
           ELSE LET t1 == r.tail + 1
                    t2 == IF t1 >= r.size THEN 0 ELSE t1
                IN  RRes(w.st, w.out, [r EXCEPT !.tail = t2])
           : w \in RingBuf_ByteWatch(isnull, out, r, m) }

\* ------------------------------------------------------ history variables
\* A call record; the fields a call does not use keep these values.  data
\* holds the cells a put stored (none when the put was rejected), out the
\* caller's output array after the call.
NoCall == [op |-> "none", len |-> 0, data |-> <<>>, isnull |-> FALSE,
           out |-> <<>>, st |-> RINGBUF_OK]

PutOps   == {"RingBuf_BytePut", "RingBuf_CellPut", "RingBuf_DataPut"}
ReadOps  == {"RingBuf_ByteRead", "RingBuf_CellRead", "RingBuf_DataRead"}
WatchOps == {"RingBuf_ByteWatch", "RingBuf_CellWatch", "RingBuf_DataWatch"}

FifoOff  == [valid |-> FALSE, q |-> <<>>]
FifoNew  == [valid |-> TRUE, q |-> <<>>]
FreshOff == [phase |-> "off", in |-> <<>>, out |-> <<>>]
FreshNew == [phase |-> "put", in |-> <<>>, out |-> <<>>]

\* cells held by a byte sequence, for the current cell size
Cells(bytes, r) == Len(bytes) \div r.cell_size

\* the histories after a put of len cells that returned st
FifoPut(f, st, len, data, r) ==
    IF st # RINGBUF_OK THEN f
    ELSE IF f.valid /\ Cells(f.q, r) + len <= r.size - 1
         THEN [f EXCEPT !.q = f.q \o data]
         ELSE FifoOff

FreshPut(g, st, len, data, r) ==
    IF st # RINGBUF_OK THEN g
    ELSE IF g.phase = "put" /\ Cells(g.in, r) + len <= r.size
         THEN [g EXCEPT !.in = g.in \o data]
         ELSE FreshOff

\* the histories after a read of len cells that returned st and wrote out
FifoRead(f, st, len, out, r) ==
    IF st # RINGBUF_OK THEN f
    ELSE IF f.valid /\ len <= Cells(f.q, r)
         THEN [f EXCEPT !.q = SubSeq(f.q, len * r.cell_size + 1, Len(f.q))]
         ELSE FifoOff

FreshRead(g, st, len, out, r) ==
    IF st # RINGBUF_OK THEN g
    ELSE IF g.phase # "off" /\ Cells(g.out, r) + len <= Cells(g.in, r)
         THEN [g EXCEPT !.phase = "read", !.out = g.out \o out]
         ELSE FreshOff

\* ----------------------------------------------------------------- state
\* the second buffer and the calls in progress, where there are none
NoTwin == [rb |-> [buf |-> NULL, tail |-> 0, head |-> 0, size |-> 0, cell_size |-> 0],
           mem |-> <<>>, st |-> RINGBUF_OK, len |-> 0, out |-> <<>>]
NoTask == [p |-> [pc |-> "idle"], c |-> [pc |-> "idle"]]

Init ==
    /\ rb = [buf |-> NULL, tail |-> 0, head |-> 0, size |-> 0, cell_size |-> 0]
    /\ mem = <<>>
    /\ call = NoCall
    /\ fifo = FifoOff
    /\ fresh = FreshOff
    /\ halted = FALSE
    /\ twin = NoTwin
    /\ task = NoTask

\* ---------------------------------------------------------------- actions
DoInit ==
    /\ ~halted
    /\ \E buf \in {NULL, STORAGE}, size \in 1 .. MaxSize, cellsize \in CellSizes :
         LET res == RingBuf_Init(buf, size, cellsize, rb) IN
         /\ rb' = res.rb
         /\ mem' = IF buf = NULL THEN <<>> ELSE Zeros(size * cellsize)
         /\ call' = [NoCall EXCEPT !.op = "RingBuf_Init", !.len = size, !.st = res.st]
         /\ fifo' = IF res.st = RINGBUF_OK THEN FifoNew ELSE FifoOff
         /\ fresh' = IF res.st = RINGBUF_OK THEN FreshNew ELSE FreshOff
    /\ UNCHANGED <<halted, twin, task>>

DoClear ==
    /\ ~halted
    /\ LET res == RingBuf_Clear(rb) IN
         /\ rb' = res.rb
         /\ call' = [NoCall EXCEPT !.op = "RingBuf_Clear", !.st = res.st]
         /\ fifo' = IF res.st = RINGBUF_OK THEN FifoNew ELSE fifo
         /\ fresh' = IF res.st = RINGBUF_OK THEN FreshNew ELSE fresh
    /\ UNCHANGED <<mem, halted, twin, task>>

DoAvailable ==
    /\ ~halted
    /\ LET res == RingBuf_Available(0, rb) IN
         call' = [NoCall EXCEPT !.op = "RingBuf_Available", !.len = res.len, !.st = res.st]
    /\ UNCHANGED <<rb, mem, fifo, fresh, halted, twin, task>>

PutStep(op, len, data, res) ==
    /\ rb' = res.rb
    /\ mem' = res.mem
    /\ call' = [NoCall EXCEPT !.op = op, !.len = len, !.st = res.st,
                              !.data = IF res.st = RINGBUF_OK THEN data ELSE <<>>]
    /\ fifo' = FifoPut(fifo, res.st, len, data, rb)
    /\ fresh' = FreshPut(fresh, res.st, len, data, rb)
    /\ UNCHANGED halted

\* The byte forms are the u8_t interface: the application calls them on
\* buffers of one-byte cells (and on unbound buffers).
ByteBuffer == rb.buf = NULL \/ rb.cell_size = 1

DoBytePut ==
    /\ ~halted
    /\ UNCHANGED <<twin, task>>
    /\ ByteBuffer
    /\ \E b \in Byte :
         PutStep("RingBuf_BytePut", 1, <<b>>, RingBuf_BytePut(b, rb, mem))

DoCellPut ==
    /\ ~halted
    /\ UNCHANGED <<twin, task>>
    /\ \E v \in Byte :
         LET data == CellOf(v, rb.cell_size) IN
         PutStep("RingBuf_CellPut", 1, data, RingBuf_CellPut(data, rb, mem))

DoDataPut ==
    /\ ~halted
    /\ UNCHANGED <<twin, task>>
    /\ \E len \in 0 .. MaxLen, v \in Byte :
           LET data == CellsOf(Run(v, len), rb.cell_size) IN
           PutStep("RingBuf_DataPut", len, data, RingBuf_DataPut(data, len, rb, mem))

\* the len arguments tried with a null output pointer: one that fits every
\* capacity and one that exceeds every capacity
NullLens == {1, MaxLen}

ReadStep(op, len, isnull, res) ==
    /\ rb' = res.rb
    /\ call' = [NoCall EXCEPT !.op = op, !.len = len, !.isnull = isnull,
                              !.out = res.out, !.st = res.st]
    /\ fifo' = FifoRead(fifo, res.st, len, res.out, rb)
    /\ fresh' = FreshRead(fresh, res.st, len, res.out, rb)
    /\ UNCHANGED <<mem, halted>>

DoByteRead ==
    /\ ~halted
    /\ UNCHANGED <<twin, task>>
    /\ ByteBuffer
    /\ \E isnull \in BOOLEAN :
         \E res \in RingBuf_ByteRead(isnull, OutArray(1), rb, mem) :
           ReadStep("RingBuf_ByteRead", 1, isnull, res)

DoCellRead ==
    /\ ~halted
    /\ UNCHANGED <<twin, task>>
    /\ \E isnull \in BOOLEAN :
         \E res \in RingBuf_CellRead(isnull, OutArray(rb.cell_size), rb, mem) :
           ReadStep("RingBuf_CellRead", 1, isnull, res)

DoDataRead ==
    /\ ~halted
    /\ UNCHANGED <<twin, task>>
    /\ \E isnull \in BOOLEAN, len \in 0 .. MaxLen :
         /\ isnull => len \in NullLens
         /\ \E res \in RingBuf_DataRead(isnull, OutArray(len * rb.cell_size), len, rb, mem) :
              ReadStep("RingBuf_DataRead", len, isnull, res)

WatchStep(op, len, isnull, res) ==
    /\ call' = [NoCall EXCEPT !.op = op, !.len = len, !.isnull = isnull,
                              !.out = res.out, !.st = res.st]
    /\ halted' = res.trap
    /\ UNCHANGED <<rb, mem, fifo, fresh>>

DoByteWatch ==
    /\ ~halted
    /\ UNCHANGED <<twin, task>>
    /\ ByteBuffer
    /\ \E isnull \in BOOLEAN :
         \E res \in RingBuf_ByteWatch(isnull, OutArray(1), rb, mem) :
           WatchStep("RingBuf_ByteWatch", 1, isnull, res)

DoCellWatch ==
    /\ ~halted
    /\ UNCHANGED <<twin, task>>
    /\ \E isnull \in BOOLEAN :
         \E res \in RingBuf_CellWatch(isnull, OutArray(rb.cell_size), rb, mem) :
           WatchStep("RingBuf_CellWatch", 1, isnull, res)

DoDataWatch ==
    /\ ~halted
    /\ UNCHANGED <<twin, task>>
    /\ \E isnull \in BOOLEAN, len \in 0 .. MaxLen :
         /\ isnull => len \in NullLens
         /\ \E res \in RingBuf_DataWatch(isnull, OutArray(len * rb.cell_size), len, rb, mem) :
              WatchStep("RingBuf_DataWatch", len, isnull, res)

Next ==
    \/ DoInit
    \/ DoClear
    \/ DoAvailable
    \/ DoBytePut
    \/ DoCellPut
    \/ DoDataPut
    \/ DoByteRead
    \/ DoCellRead
    \/ DoDataRead
    \/ DoByteWatch
    \/ DoCellWatch
    \/ DoDataWatch

Spec == Init /\ [][Next]_vars

TypeOK ==
    /\ rb.buf \in {NULL, STORAGE}
    /\ rb.head \in 0 .. MaxSize /\ rb.tail \in 0 .. MaxSize
    /\ rb.buf # NULL => Len(mem) = rb.size * rb.cell_size
    /\ halted \in BOOLEAN

\* ------------------------------------------------- two buffers in lockstep
\* The application keeps two buffers of the same capacity and of different
\* cell sizes (as example.c keeps a u8_t and a u16_t buffer) and makes every
\* call on both, with the same lengths and with the same cells, each cell in
\* the width of its buffer.  rb, mem and call are the first buffer, twin the
\* second one with the results of its last call.
Twin(r, m, st, len, out) == [rb |-> r, mem |-> m, st |-> st, len |-> len, out |-> out]

Paired == rb.buf # NULL /\ twin.rb.buf # NULL

PairStep(c, r, m, t) ==
    /\ rb' = r
    /\ mem' = m
    /\ call' = c
    /\ twin' = t
    /\ UNCHANGED <<fifo, fresh, halted, task>>

PairInit ==
    \E size \in 1 .. MaxSize, cs1 \in CellSizes, cs2 \in CellSizes :
       /\ cs1 < cs2
       /\ LET a == RingBuf_Init(STORAGE, size, cs1, rb)
              b == RingBuf_Init(STORAGE, size, cs2, twin.rb)
          IN  PairStep([NoCall EXCEPT !.op = "RingBuf_Init", !.len = size, !.st = a.st],
                       a.rb, Zeros(size * cs1),
                       Twin(b.rb, Zeros(size * cs2), b.st, size, <<>>))

PairClear ==
    /\ Paired
    /\ LET a == RingBuf_Clear(rb)
           b == RingBuf_Clear(twin.rb)
       IN  PairStep([NoCall EXCEPT !.op = "RingBuf_Clear", !.st = a.st],
                    a.rb, mem, Twin(b.rb, twin.mem, b.st, 0, <<>>))

PairAvailable ==
    /\ Paired
    /\ LET a == RingBuf_Available(0, rb)
           b == RingBuf_Available(0, twin.rb)
       IN  PairStep([NoCall EXCEPT !.op = "RingBuf_Available", !.len = a.len, !.st = a.st],
                    rb, mem, Twin(twin.rb, twin.mem, b.st, b.len, <<>>))

PairPut(op, len, tags, a, b) ==
    PairStep([NoCall EXCEPT !.op = op, !.len = len, !.st = a.st,
                            !.data = IF a.st = RINGBUF_OK
                                     THEN CellsOf(tags, rb.cell_size) ELSE <<>>],
             a.rb, a.mem, Twin(b.rb, b.mem, b.st, len, <<>>))

PairCellPut ==
    /\ Paired
    /\ \E v \in Byte :
         PairPut("RingBuf_CellPut", 1, <<v>>,
                 RingBuf_CellPut(CellOf(v, rb.cell_size), rb, mem),
                 RingBuf_CellPut(CellOf(v, twin.rb.cell_size), twin.rb, twin.mem))

PairDataPut ==
    /\ Paired
    /\ \E len \in 0 .. MaxLen, v \in Byte :
         PairPut("RingBuf_DataPut", len, Run(v, len),
                 RingBuf_DataPut(CellsOf(Run(v, len), rb.cell_size), len, rb, mem),
                 RingBuf_DataPut(CellsOf(Run(v, len), twin.rb.cell_size), len, twin.rb, twin.mem))

PairRead(op, len, isnull, a, b) ==
    PairStep([NoCall EXCEPT !.op = op, !.len = len, !.isnull = isnull,
                            !.out = a.out, !.st = a.st],
             a.rb, mem, Twin(b.rb, twin.mem, b.st, len, b.out))

PairCellRead ==
    /\ Paired
    /\ \E isnull \in BOOLEAN :
         \E a \in RingBuf_CellRead(isnull, OutArray(rb.cell_size), rb, mem),
            b \in RingBuf_CellRead(isnull, OutArray(twin.rb.cell_size), twin.rb, twin.mem) :
           PairRead("RingBuf_CellRead", 1, isnull, a, b)

PairDataRead ==
    /\ Paired
    /\ \E isnull \in BOOLEAN, len \in 0 .. MaxLen :
         \E a \in RingBuf_DataRead(isnull, OutArray(len * rb.cell_size), len, rb, mem),
            b \in RingBuf_DataRead(isnull, OutArray(len * twin.rb.cell_size), len,
                                   twin.rb, twin.mem) :
           PairRead("RingBuf_DataRead", len, isnull, a, b)

PairWatch(op, len, isnull, a, b) ==
    PairStep([NoCall EXCEPT !.op = op, !.len = len, !.isnull = isnull,
                            !.out = a.out, !.st = a.st],
             rb, mem, Twin(twin.rb, twin.mem, b.st, len, b.out))

PairCellWatch ==
    /\ Paired
    /\ \E isnull \in BOOLEAN :
         \E a \in RingBuf_CellWatch(isnull, OutArray(rb.cell_size), rb, mem),
            b \in RingBuf_CellWatch(isnull, OutArray(twin.rb.cell_size), twin.rb, twin.mem) :
           PairWatch("RingBuf_CellWatch", 1, isnull, a, b)

PairDataWatch ==
    /\ Paired
    /\ \E isnull \in BOOLEAN, len \in 0 .. MaxLen :
         \E a \in RingBuf_DataWatch(isnull, OutArray(len * rb.cell_size), len, rb, mem),
            b \in RingBuf_DataWatch(isnull, OutArray(len * twin.rb.cell_size), len,
                                    twin.rb, twin.mem) :
           PairWatch("RingBuf_DataWatch", len, isnull, a, b)

PairNext ==
    \/ PairInit
    \/ PairClear
    \/ PairAvailable
    \/ PairCellPut
    \/ PairDataPut
    \/ PairCellRead
    \/ PairDataRead
    \/ PairCellWatch
    \/ PairDataWatch

SpecPair == Init /\ [][PairNext]_vars

\* ------------------------------------------- calls statement by statement
\* One producer (an interrupt handler that calls the put functions) and one
\* consumer (the application, which calls RingBuf_DataRead) share the
\* buffer.  Every memcpy and every write to rb->head or rb->tail is a step
\* of its own, and the steps of the two calls interleave in any order.
\* task.p and task.c are the frames of the two calls in progress: their
\* position pc and their local variables.  h0, t0 and n record the head,
\* the tail and the len argument at the start of the call.
Idle == [pc |-> "idle"]

Frames == <<call, fifo, fresh, halted, twin>>

\* the application initialises the buffer while no call is in progress
StepInit ==
    /\ task = NoTask
    /\ \E size \in 1 .. MaxSize, cellsize \in CellSizes :
         /\ rb' = RingBuf_Init(STORAGE, size, cellsize, rb).rb
         /\ mem' = Zeros(size * cellsize)
    /\ UNCHANGED <<task, Frames>>

\* RingBuf_DataPut, lines 99-107: the checks and the locals
PutBegin ==
    /\ task.p.pc = "idle" /\ rb.buf # NULL
    /\ \E len \in 0 .. MaxLen, v \in Byte :
         LET space == rb.size - rb.head
             frame == [pc |-> IF len > space THEN "copy1" ELSE "copy2",
                       op |-> "RingBuf_DataPut",
                       data |-> CellsOf(Run(v, len), rb.cell_size),
                       len |-> len, s_addr |-> 0, space |-> space,
                       h0 |-> rb.head, n |-> len]
         IN  task' = IF len > rb.size THEN task ELSE [task EXCEPT !.p = frame]
    /\ UNCHANGED <<rb, mem, Frames>>

\* line 109: the copy to the end of the storage
PutCopy1 ==
    /\ task.p.pc = "copy1"
    /\ LET f == task.p cs == rb.cell_size IN
         /\ mem' = memcpy(mem, rb.head * cs, f.data, f.s_addr * cs, f.space * cs)
         /\ task' = [task EXCEPT !.p.pc = "head0"]
    /\ UNCHANGED <<rb, Frames>>

\* lines 111-115: rb->head = 0; s_addr = space; len -= space
PutHead0 ==
    /\ task.p.pc = "head0"
    /\ LET f == task.p IN
         /\ rb' = [rb EXCEPT !.head = 0]
         /\ task' = [task EXCEPT !.p.pc = "copy2", !.p.s_addr = f.space,
                                 !.p.len = f.len - f.space]
    /\ UNCHANGED <<mem, Frames>>

\* RingBuf_DataPut without the memcpy of line 118
PutCopy2_NoCopy ==
    /\ task.p.pc = "copy2"
    /\ task' = [task EXCEPT !.p.pc = "shift"]
    /\ UNCHANGED <<rb, mem, Frames>>

\* line 118: the copy from head on
PutCopy2 ==
    /\ task.p.pc = "copy2"
    /\ LET f == task.p cs == rb.cell_size IN
         /\ mem' = memcpy(mem, rb.head * cs, f.data, f.s_addr * cs, f.len * cs)
         /\ task' = [task EXCEPT !.p.pc = "shift"]
    /\ UNCHANGED <<rb, Frames>>

\* line 120: rb->head += len
PutShift ==
    /\ task.p.pc = "shift"
    /\ rb' = [rb EXCEPT !.head = rb.head + task.p.len]
    /\ task' = [task EXCEPT !.p.pc = "wrap"]
    /\ UNCHANGED <<mem, Frames>>

\* lines 121-123: the wrap of head, and the return
PutWrap ==
    /\ task.p.pc = "wrap"
    /\ rb' = IF rb.head >= rb.size THEN [rb EXCEPT !.head = 0] ELSE rb
    /\ task' = [task EXCEPT !.p = Idle]
    /\ UNCHANGED <<mem, Frames>>

\* RingBuf_BytePut, lines 73-74: the check, and the value of rb->head++.
\* The store to rb->buf[...] and the update of rb->head of line 74 are not
\* sequenced: the build may make them in either order.
BytePutBegin ==
    /\ task.p.pc = "idle" /\ rb.buf # NULL /\ rb.cell_size = 1
    /\ \E b \in Byte :
         task' = [task EXCEPT !.p = [pc |-> "byte", op |-> "RingBuf_BytePut",
                                     data |-> <<b>>, h0 |-> rb.head, n |-> 1,
                                     stored |-> FALSE, shifted |-> FALSE]]
    /\ UNCHANGED <<rb, mem, Frames>>

\* line 74: the store of the byte
BytePutStore ==
    /\ task.p.pc = "byte" /\ ~task.p.stored
    /\ mem' = [mem EXCEPT ![task.p.h0 + 1] = task.p.data[1]]
    /\ task' = [task EXCEPT !.p.stored = TRUE,
                            !.p.pc = IF task.p.shifted THEN "bytewrap" ELSE "byte"]
    /\ UNCHANGED <<rb, Frames>>

\* line 74: the increment of rb->head
BytePutShift ==
    /\ task.p.pc = "byte" /\ ~task.p.shifted
    /\ rb' = [rb EXCEPT !.head = task.p.h0 + 1]
    /\ task' = [task EXCEPT !.p.shifted = TRUE,
                            !.p.pc = IF task.p.stored THEN "bytewrap" ELSE "byte"]
    /\ UNCHANGED <<mem, Frames>>

\* lines 75-77: the wrap of head, and the return
BytePutWrap ==
    /\ task.p.pc = "bytewrap"
    /\ rb' = IF rb.head >= rb.size THEN [rb EXCEPT !.head = 0] ELSE rb
    /\ task' = [task EXCEPT !.p = Idle]
    /\ UNCHANGED <<mem, Frames>>

\* RingBuf_DataRead line 163 and RingBuf_DataWatch lines 211-220: the
\* checks and the locals
ReadBegin ==
    /\ task.c.pc = "idle" /\ rb.buf # NULL
    /\ \E len \in 0 .. MaxLen :
         LET space == (rb.size - rb.tail) % U16
             frame == [pc |-> IF len > space THEN "copy1" ELSE "copy2",
                       out |-> OutArray(len * rb.cell_size),
                       len |-> len, s_addr |-> 0, space |-> space,
                       loc_tail |-> rb.tail % U16, t0 |-> rb.tail, n |-> len]
         IN  task' = IF len > rb.size THEN task ELSE [task EXCEPT !.c = frame]
    /\ UNCHANGED <<rb, mem, Frames>>

\* lines 223-229: the copy from the end of the storage; loc_tail = 0;
\* s_addr = space; len -= space
ReadCopy1 ==
    /\ task.c.pc = "copy1"
    /\ LET f == task.c cs == rb.cell_size IN
         task' = [task EXCEPT
                    !.c.out = memcpy(f.out, f.s_addr * cs, mem, f.loc_tail * cs, f.space * cs),
                    !.c.loc_tail = 0, !.c.s_addr = f.space,
                    !.c.len = (f.len - f.space) % U16, !.c.pc = "copy2"]
    /\ UNCHANGED <<rb, mem, Frames>>

\* line 232: the copy from loc_tail on, and the return to RingBuf_DataRead
ReadCopy2 ==
    /\ task.c.pc = "copy2"
    /\ LET f == task.c cs == rb.cell_size IN
         task' = [task EXCEPT
                    !.c.out = memcpy(f.out, f.s_addr * cs, mem, f.loc_tail * cs, f.len * cs),
                    !.c.pc = "shift"]
    /\ UNCHANGED <<rb, mem, Frames>>

\* line 169: rb->tail += len
ReadShift ==
    /\ task.c.pc = "shift"
    /\ rb' = [rb EXCEPT !.tail = rb.tail + task.c.n]
    /\ task' = [task EXCEPT !.c.pc = "wrap"]
    /\ UNCHANGED <<mem, Frames>>

\* lines 170-172: the wrap of tail, and the return
ReadWrap ==
    /\ task.c.pc = "wrap"
    /\ rb' = IF rb.tail >= rb.size THEN [rb EXCEPT !.tail = 0] ELSE rb
    /\ task' = [task EXCEPT !.c = Idle]
    /\ UNCHANGED <<mem, Frames>>

StepNext ==
    \/ StepInit
    \/ PutBegin
    \/ PutCopy1
    \/ PutHead0
    \/ PutCopy2
    \/ PutShift
    \/ PutWrap
    \/ BytePutBegin
    \/ BytePutStore
    \/ BytePutShift
    \/ BytePutWrap
    \/ ReadBegin
    \/ ReadCopy1
    \/ ReadCopy2
    \/ ReadShift
    \/ ReadWrap

SpecSteps == Init /\ [][StepNext]_vars

\* ------------------------------------------------------------ properties
Bound == rb.buf # NULL

CellPuts    == {"RingBuf_CellPut", "RingBuf_DataPut"}
CellReads   == {"RingBuf_CellRead", "RingBuf_DataRead"}
CellWatches == {"RingBuf_CellWatch", "RingBuf_DataWatch"}
Rejected    == {RINGBUF_OVERFLOW, RINGBUF_PARAM_ERR}

\* what available() reports in the current state
Avail == RingBuf_Available(0, rb).len

\* the call of the record c returned RINGBUF_OK
Ok(c) == c.st = RINGBUF_OK

\* C1: FIFO order on a fresh buffer.  After a reset, puts of k <= capacity
\* cells in total followed by reads: the cells read so far are the first
\* cells put, in order, and once k cells are read they are the k cells put.
C1_FifoOrderFresh ==
    fresh.phase # "off" =>
        /\ Len(fresh.out) <= Len(fresh.in)
        /\ fresh.out = SubSeq(fresh.in, 1, Len(fresh.out))

\* a full buffer (k = capacity >= 2) of cells that differ, put in more than
\* one call, has been read back completely
C1_Witness ==
    /\ fresh.phase = "read"
    /\ call.op \in CellReads /\ Ok(call) /\ call.len >= 1 /\ call.len < rb.size
    /\ Cells(fresh.in, rb) = rb.size /\ rb.size >= 2
    /\ fresh.out = fresh.in
    /\ CellAt(fresh.in, 0, rb.cell_size) # CellAt(fresh.in, 1, rb.cell_size)

\* C2: bounded-FIFO behaviour over arbitrary histories.  While the number
\* of unread cells has stayed within 0..capacity-1, every successful read
\* of len cells returns the len oldest unread cells, in order.
C2_BoundedFifo ==
    [][ (fifo.valid /\ fifo'.valid /\ call'.op \in CellReads /\ Ok(call'))
          => call'.out = SubSeq(fifo.q, 1, call'.len * rb.cell_size) ]_vars

\* C3: a successful read of len cells leaves tail = (t + len) mod capacity.
C3_ReadAdvancesTail ==
    [][ (Bound /\ call'.op \in ReadOps /\ Ok(call'))
          => rb'.tail = (rb.tail + call'.len) % rb.size ]_vars

\* C4 as stated: after a reset, m <= capacity cells put and then n <= m
\* cells read, available() reports m - n.
C4_AvailableFresh_Original ==
    fresh.phase # "off" =>
        Avail = Cells(fresh.in, rb) - Cells(fresh.out, rb)

\* C4 as amended: the same, except that with m = capacity and nothing read
\* yet available() reports 0.
C4_AvailableFresh ==
    fresh.phase # "off" =>
        LET m == Cells(fresh.in, rb)
            n == Cells(fresh.out, rb)
        IN  /\ RingBuf_Available(0, rb).st = RINGBUF_OK
            /\ Avail = IF m = rb.size /\ n = 0 THEN 0 ELSE m - n

\* available() was called after capacity cells were put and some, not all,
\* were read, and reported the difference
C4_Witness ==
    /\ fresh.phase = "read"
    /\ call.op = "RingBuf_Available" /\ Ok(call)
    /\ Cells(fresh.in, rb) = rb.size
    /\ Cells(fresh.out, rb) >= 1 /\ Cells(fresh.out, rb) < rb.size
    /\ call.len = Cells(fresh.in, rb) - Cells(fresh.out, rb)

\* C5: occupancy accounting over arbitrary histories.  While the number of
\* unread cells has stayed within 0..capacity-1, available() reports the
\* cells put minus the cells read.
C5_Occupancy ==
    fifo.valid => Avail = Cells(fifo.q, rb)

\* C6: put wraparound.  A successful put of len cells at head h stores
\* source cell i at storage cell (h + i) mod capacity and leaves
\* head = (h + len) mod capacity.
C6_PutWraparound ==
    [][ (call'.op \in CellPuts /\ Ok(call'))
          => /\ \A i \in 0 .. call'.len - 1 :
                  CellAt(mem', (rb.head + i) % rb.size, rb.cell_size)
                    = CellAt(call'.data, i, rb.cell_size)
             /\ rb'.head = (rb.head + call'.len) % rb.size ]_vars

\* a put_many of cells wider than a byte has crossed the end of the storage
C6_Witness ==
    /\ call.op = "RingBuf_DataPut" /\ Ok(call)
    /\ rb.head > 0 /\ rb.head < call.len
    /\ rb.cell_size > 1

\* C7: watch/read data wraparound.  A successful watch or read of len cells
\* at tail t on a bound buffer writes storage cell (t + i) mod capacity to
\* output cell i.
C7_WatchWraparound ==
    [][ (Bound /\ (call'.op \in CellWatches \/ call'.op \in CellReads) /\ Ok(call'))
          => /\ Len(call'.out) = call'.len * rb.cell_size
             /\ \A i \in 0 .. call'.len - 1 :
                  CellAt(call'.out, i, rb.cell_size)
                    = CellAt(mem, (rb.tail + i) % rb.size, rb.cell_size) ]_vars

\* a watch_many has crossed the end of the storage
C7_Witness ==
    /\ Bound /\ call.op = "RingBuf_DataWatch" /\ Ok(call)
    /\ rb.tail + call.len > rb.size

\* C8: watch is non-destructive.  A watch changes neither the structure nor
\* the storage, and a read of the same length made right after a watch
\* that returned data returns the same data.
C8_WatchNonDestructive ==
    [][ /\ (call'.op \in CellWatches) => (rb' = rb /\ mem' = mem)
        /\ (/\ call.op \in CellWatches /\ Ok(call)
            /\ call'.op \in CellReads /\ call'.len = call.len /\ ~call'.isnull)
             => (Ok(call') /\ call'.out = call.out) ]_vars

\* C9: rejected calls do not mutate.  A put, read or watch that returns
\* Overflow or ParamError leaves the structure, the storage and the output
\* array as they were.
C9_RejectedNoMutation ==
    [][ (call'.op \in (PutOps \cup ReadOps \cup WatchOps) /\ call'.st \in Rejected)
          => /\ rb' = rb
             /\ mem' = mem
             /\ call'.out = OutArray(Len(call'.out)) ]_vars

\* a read_many longer than the capacity was rejected on a buffer whose
\* tail is not 0
C9_Witness ==
    /\ Bound /\ call.op = "RingBuf_DataRead" /\ call.st = RINGBUF_OVERFLOW
    /\ ~call.isnull /\ rb.tail > 0

\* C10: unbound rejection.  Every call on an unbound buffer returns
\* ParamError.
C10_UnboundRejection ==
    (~Bound /\ call.op # "none") => call.st = RINGBUF_PARAM_ERR

\* C11: length check against the total capacity only.  On a bound buffer
\* (for read_many and watch_many: with an output array) put_many, read_many
\* and watch_many return Overflow exactly when len exceeds the capacity and
\* Ok otherwise, whatever head, tail and the occupancy are.
C11_LengthCheck ==
    [][ ( /\ Bound
          /\ call'.op \in {"RingBuf_DataPut", "RingBuf_DataRead", "RingBuf_DataWatch"}
          /\ ~call'.isnull )
          => call'.st = IF call'.len > rb.size THEN RINGBUF_OVERFLOW ELSE RINGBUF_OK ]_vars

\* the head before the put_many of the last call, which returned Ok
HeadBefore == (rb.head + rb.size - call.len) % rb.size

\* a put_many of fewer cells than the capacity returned Ok although fewer
\* cells were free: it has overwritten unread cells
C11_Witness ==
    /\ Bound /\ call.op = "RingBuf_DataPut" /\ Ok(call)
    /\ call.len < rb.size
    /\ LET occ == (HeadBefore + rb.size - rb.tail) % rb.size
       IN  occ > 0 /\ call.len > rb.size - occ

\* C12: full/empty ambiguity.  After a reset, puts of exactly capacity cells
\* in total with no read leave head = tail = 0, and available() reports 0.
C12_FullLooksEmpty ==
    (fresh.phase = "put" /\ Cells(fresh.in, rb) = rb.size)
        => rb.head = 0 /\ rb.tail = 0 /\ Avail = 0 /\ RingBuf_Available(0, rb).st = RINGBUF_OK

\* a buffer of capacity >= 2 was filled to its capacity after a reset, the
\* last put storing the last cell
C12_Witness ==
    /\ Bound /\ rb.size >= 2
    /\ fresh.phase = "put" /\ Cells(fresh.in, rb) = rb.size
    /\ call.op \in PutOps /\ Ok(call) /\ call.len < rb.size
    /\ mem # Zeros(Len(mem))

C15_Reset ==
    [][ /\ (Bound /\ call'.op = "RingBuf_Clear")
             => /\ Ok(call')
                /\ rb' = [rb EXCEPT !.head = 0, !.tail = 0]
                /\ mem' = mem
                /\ RingBuf_Available(1, rb') = [st |-> RINGBUF_OK, len |-> 0]
        /\ (call'.op = "RingBuf_Init" /\ rb'.buf # NULL)
             => /\ Ok(call')
                /\ rb'.head = 0 /\ rb'.tail = 0 /\ rb'.size = call'.len
                /\ RingBuf_Available(1, rb') = [st |-> RINGBUF_OK, len |-> 0]
        /\ (call'.op = "RingBuf_Init" /\ rb'.buf = NULL)
             => call'.st = RINGBUF_PARAM_ERR ]_vars

\* a buffer whose storage holds data was cleared
C15_Witness ==
    /\ Bound /\ call.op = "RingBuf_Clear" /\ Ok(call)
    /\ rb.size >= 2 /\ mem # Zeros(Len(mem))

\* the cells a put of len cells starting at head h may store to
PutSpan(h, len, size) == {(h + i) % size : i \in 0 .. len - 1}

\* C16: role separation.  A put, successful or rejected, leaves tail, the
\* capacity, the cell size and every cell outside the len cells starting at
\* head unchanged; a read leaves head and every cell unchanged.
C16_RoleSeparation ==
    [][ /\ call'.op \in PutOps
             => /\ rb'.tail = rb.tail /\ rb'.size = rb.size
                /\ rb'.cell_size = rb.cell_size /\ rb'.buf = rb.buf
                /\ Len(mem') = Len(mem)
                /\ Bound => \A j \in (0 .. rb.size - 1) \ PutSpan(rb.head, call'.len, rb.size) :
                              CellAt(mem', j, rb.cell_size) = CellAt(mem, j, rb.cell_size)
        /\ call'.op \in ReadOps
             => /\ rb'.head = rb.head /\ rb'.size = rb.size
                /\ rb'.cell_size = rb.cell_size /\ rb'.buf = rb.buf
                /\ mem' = mem ]_vars

\* a put_many of fewer cells than the capacity was stored while tail was
\* not 0 and a cell outside the cells it stored holds data
C16_Witness ==
    /\ Bound /\ call.op = "RingBuf_DataPut" /\ Ok(call)
    /\ call.len >= 1 /\ call.len < rb.size /\ rb.tail > 0
    /\ \E j \in (0 .. rb.size - 1) \ PutSpan(HeadBefore, call.len, rb.size) :
         CellAt(mem, j, rb.cell_size) # Zeros(rb.cell_size)

\* C17: put-then-read round trip at any position.  On a bound buffer with
\* head = tail, a successful put_many of len cells immediately followed by
\* a read_many of len cells returns Ok and exactly the cells put, in order.
C17_RoundTrip ==
    [][ ( /\ Bound /\ call.op = "RingBuf_DataPut" /\ Ok(call)
          /\ HeadBefore = rb.tail
          /\ call'.op = "RingBuf_DataRead" /\ ~call'.isnull
          /\ call'.len = call.len )
          => Ok(call') /\ call'.out = call.data ]_vars

\* capacity 3, cell size 4: three cells that differ were put at
\* head = tail = 1, wrapping, and the read_many of three cells is next
C17_Witness ==
    /\ Bound /\ call.op = "RingBuf_DataPut" /\ Ok(call)
    /\ rb.size = 3 /\ rb.cell_size = 4 /\ call.len = 3
    /\ rb.head = 1 /\ rb.tail = 1
    /\ CellAt(call.data, 0, 4) # CellAt(call.data, 1, 4)

\* C18: the byte forms agree with the cell forms.  On a buffer of one-byte
\* cells and capacity >= 1, in every reachable state, put_byte has the
\* status and the effect of put_many of one cell, read_byte those of
\* read_many of one cell, and watch_byte those of watch_many of one cell.
C18_ByteForms ==
    (rb.cell_size = 1 /\ rb.size >= 1) =>
        /\ \A b \in Byte :
             RingBuf_BytePut(b, rb, mem) = RingBuf_DataPut(<<b>>, 1, rb, mem)
        /\ \A isnull \in BOOLEAN :
             /\ RingBuf_ByteRead(isnull, OutArray(1), rb, mem)
                  = RingBuf_DataRead(isnull, OutArray(1), 1, rb, mem)
             /\ RingBuf_ByteWatch(isnull, OutArray(1), rb, mem)
                  = RingBuf_DataWatch(isnull, OutArray(1), 1, rb, mem)

\* a put_byte has stored a byte in the last cell of a buffer of one-byte
\* cells and wrapped head, and a read_byte has moved tail
C18_Witness ==
    /\ Bound /\ rb.cell_size = 1 /\ rb.size >= 2
    /\ call.op = "RingBuf_BytePut" /\ Ok(call)
    /\ rb.head = 0 /\ rb.tail > 0
    /\ mem[rb.size] # 0

\* the first n cells of the byte sequences x (cells of cx bytes) and y
\* (cells of cy bytes) are the same cells, each in the width of its buffer
SameCells(x, cx, y, cy, n) ==
    \A i \in 0 .. n - 1 :
       \E v \in Byte : CellAt(x, i, cx) = CellOf(v, cx) /\ CellAt(y, i, cy) = CellOf(v, cy)

C19_StepIndexRange ==
    rb.buf # NULL => (rb.head >= 0 /\ rb.head < rb.size /\ rb.tail >= 0 /\ rb.tail < rb.size)

\* the cells from the head h0 to the current head, going round
Covered(h0) == IF rb.head >= h0 THEN rb.head - h0 ELSE rb.size - h0 + rb.head

\* C20: copy before index update.  At every step of a put_many every cell
\* from the head the put started at to the current head holds its source
\* cell; a read_many leaves tail as it was until all its len cells are in
\* the output array.
C20_CopyBeforeIndex ==
    /\ (task.p.pc # "idle" /\ task.p.op = "RingBuf_DataPut")
         => \A i \in 0 .. Covered(task.p.h0) - 1 :
              /\ i < task.p.n
              /\ CellAt(mem, (task.p.h0 + i) % rb.size, rb.cell_size)
                   = CellAt(task.p.data, i, rb.cell_size)
    /\ (task.c.pc # "idle" /\ rb.tail # task.c.t0)
         => /\ task.c.pc = "wrap"
            /\ \A k \in 1 .. Len(task.c.out) : task.c.out[k] # Unwritten

\* a put_many across the end of the storage has set head to 0 and not yet
\* made its second copy, while a read_many is between its two copies
C20_Witness ==
    /\ task.p.pc = "copy2" /\ task.p.h0 > 0 /\ rb.head = 0 /\ task.p.len >= 1
    /\ task.p.data # Zeros(Len(task.p.data))
    /\ task.c.pc = "copy2" /\ task.c.s_addr > 0

====
